---- MODULE Spec2Model ----
(***************************************************************************)
(* jquants-proxy: a Cloudflare Worker that answers get(endpoint) from the  *)
(* edge cache or, on a miss, from the J-Quants API with a bearer id token  *)
(* kept in KV (src/src/index.ts, and the cache helpers of                  *)
(* src/unnamed/part_000).  Every await of the code is one step of a call,  *)
(* so that concurrent calls interleave exactly where the worker can yield. *)
(***************************************************************************)
EXTENDS Integers, Sequences, FiniteSets, TLC

\* ------------------------------------------------------------- bounds
MaxCalls == 2   \* get() invocations that may be in flight together
MaxIssue == 2   \* tokens of each variant the upstream issues in a run
MaxTicks == 2   \* clock steps of 500 ms
MaxPending == 2 \* calls in flight plus cache puts waitUntil still holds
MaxHours == 169 \* the last hour the clock reaches when hours and days pass

Calls == 1..MaxCalls
Endpoints == {"/a", "/b"}
MainEndpoint == "/a"

\* ---------------------------------------------------------- constants
API_BASE_URL == "https://api.jquants.com"
CACHE_MAX_AGE == 60 * 10
X_PROXY_CACHE_MAXAGE_KEY == "x-proxy-cache-maxage"
X_PROXY_CACHE_AGE_KEY == "x-proxy-cache-age"
REFRESH_TOKEN_TTL == 60 * 60 * 24 * 6
ID_TOKEN_TTL == 60 * 60 * 23
\* What the comments above the two constants say the upstream really grants.
REFRESH_TOKEN_EXPIRY == 60 * 60 * 24 * 7
ID_TOKEN_EXPIRY == 60 * 60 * 24
REFRESH_TOKEN_KEY == "refresh_token"
ID_TOKEN_KEY == "id_token"
KvKeys == {REFRESH_TOKEN_KEY, ID_TOKEN_KEY}

Urls == {API_BASE_URL \o e : e \in Endpoints}

\* ------------------------------------------------------------- values
\* A token is an opaque string; the model keeps its variant and the serial
\* number the upstream gave it.  NoToken stands for every falsy value the
\* code can meet in its place: null from KV.get, undefined or "" in JSON.
NoToken == [kind |-> "none", n |-> 0]
RefreshTok(i) == [kind |-> "refresh", n |-> i]
IdTok(i) == [kind |-> "id", n |-> i]

\* JavaScript truthiness of a token-valued expression.
Truthy(v) == v # NoToken

\* Headers: a function from the (lower-case) names present to their values.
NoHeaders == [k \in {} |-> ""]
HHas(h, k) == k \in DOMAIN h
HSet(h, k, v) == [y \in DOMAIN h \cup {k} |-> IF y = k THEN v ELSE h[y]]
HDelete(h, k) == [y \in DOMAIN h \ {k} |-> h[y]]

NoRes == [status |-> 0, body |-> "", headers |-> NoHeaders]

\* The HTTP date of an instant t (ms): whole seconds, as a string.
HttpDate(t) == ToString(t \div 1000)
\* The seconds the clock can show: those of the ticks, and the whole hours.
DateSeconds == (0..MaxTicks) \cup {3600 * h : h \in 0..MaxHours}
\* new Date(s).getTime(): the instant (ms) an HTTP date names.
DateGetTime(s) == 1000 * (CHOOSE n \in DateSeconds : ToString(n) = s)

\* The hour of the clock at instant t (ms).
Hours(t) == t \div 3600000

\* The hours a token was issued by the upstream, written to KV, got hold of
\* by a call, and presented to the upstream by it; zeros where there is none.
NoTimes == [issued |-> 0, written |-> 0, got |-> 0, used |-> 0]

\* What the upstream may answer to a data GET of url at instant t.
UpstreamBody(url) == "data of " \o url
UpstreamResponses(url, t) ==
  { [status |-> 200, body |-> UpstreamBody(url),
     headers |-> [date |-> HttpDate(t)]],
    [status |-> 200, body |-> UpstreamBody(url),
     headers |-> NoHeaders],
    [status |-> 200, body |-> UpstreamBody(url),
     headers |-> HSet([date |-> HttpDate(t)], "cache-control", "no-store")],
    [status |-> 500, body |-> "error",
     headers |-> [date |-> HttpDate(t)]] }

\* The two plainest of these answers: a 2xx with a date, and the error.
PlainResponses(url, t) ==
  { [status |-> 200, body |-> UpstreamBody(url),
     headers |-> [date |-> HttpDate(t)]],
    [status |-> 500, body |-> "error",
     headers |-> [date |-> HttpDate(t)]] }

\* Response.ok
ResOk(r) == r.status >= 200 /\ r.status <= 299

\* -------------------------------------------------------------- state
VARIABLES
  env,           \* this.env: JQUANTS_API_EMAIL, JQUANTS_API_PW
  now,           \* Date.now(), ms
  kv,            \* env.KV: key -> token, NoToken when absent or expired
  cache,         \* caches.default: url -> stored response (present urls only)
  pending,       \* promises handed to ctx.waitUntil: cache puts not yet landed
  issuedRefresh, \* refresh tokens the upstream has issued
  issuedId,      \* id tokens the upstream has issued
  pc,            \* each call's position
  url,           \* each call's upstream url
  refreshToken,  \* #getToken's refreshToken / #getRefreshToken's token
  idToken,       \* #fetchWithCache's token
  res,           \* the response the call returned
  err,           \* the error the call threw
  lookup,        \* what getCache yielded to the call
  trace,         \* the store, cache and network operations the call made
  idAtCall,      \* whether KV held an id token when the call invoked #getToken
  lastNon2xx,    \* urls whose latest upstream result was not a 2xx
  lastWrite,     \* per key, the value handed to the latest KV.put still alive
  kvTimes,       \* per key, the hours its value was issued and written
  held           \* per call and key, the hours its token was issued, written
                 \* (when it came from KV) and got hold of by the call

vars == <<env, now, kv, cache, pending, issuedRefresh, issuedId, pc, url,
          refreshToken, idToken, res, err, lookup, trace, idAtCall,
          lastNon2xx, lastWrite, kvTimes, held>>

shared == <<env, now, kv, cache, pending, issuedRefresh, issuedId>>

Envs == { [email |-> "user@example.com", pw |-> "secret"],
          [email |-> "", pw |-> "secret"],
          [email |-> "user@example.com", pw |-> ""] }

Ev(op, v) == [op |-> op, val |-> v]
Ops(c) == {trace[c][i].op : i \in DOMAIN trace[c]}

Init ==
  /\ env \in Envs
  /\ now = 0
  /\ kv = [k \in KvKeys |-> NoToken]
  /\ cache = [u \in {} |-> NoRes]
  /\ pending = {}
  /\ issuedRefresh = 0
  /\ issuedId = 0
  /\ pc = [c \in Calls |-> "idle"]
  /\ url = [c \in Calls |-> ""]
  /\ refreshToken = [c \in Calls |-> NoToken]
  /\ idToken = [c \in Calls |-> NoToken]
  /\ res = [c \in Calls |-> NoRes]
  /\ err = [c \in Calls |-> ""]
  /\ lookup = [c \in Calls |-> "none"]
  /\ trace = [c \in Calls |-> <<>>]
  /\ idAtCall = [c \in Calls |-> FALSE]
  /\ lastNon2xx = {}
  /\ lastWrite = [k \in KvKeys |-> NoToken]
  /\ kvTimes = [k \in KvKeys |-> NoTimes]
  /\ held = [c \in Calls |-> [k \in KvKeys |-> NoTimes]]

\* ------------------------------------------------- cache (part_000)
\* A setDebugHeaders that reports the age in milliseconds.
SetDebugHeadersMillis(h, t) ==
  LET aged == IF HHas(h, "date") /\ h["date"] # ""
              THEN HSet(h, X_PROXY_CACHE_AGE_KEY,
                        ToString(t - DateGetTime(h["date"])))
              ELSE h
  IN HSet(aged, X_PROXY_CACHE_MAXAGE_KEY, ToString(CACHE_MAX_AGE))

\* setDebugHeaders: the age in whole seconds when the entry has a date,
\* and the fixed max-age.
SetDebugHeaders(h, t) ==
  LET aged == IF HHas(h, "date") /\ h["date"] # ""
              THEN HSet(h, X_PROXY_CACHE_AGE_KEY,
                        ToString((t - DateGetTime(h["date"])) \div 1000))
              ELSE h
  IN HSet(aged, X_PROXY_CACHE_MAXAGE_KEY, ToString(CACHE_MAX_AGE))

\* A getCache that forgets to delete Cache-Control.
GetCacheResponseKeepsCacheControl(entry, t) ==
  [status |-> entry.status, body |-> entry.body,
   headers |-> SetDebugHeaders(entry.headers, t)]

\* getCache after a match: a new Response over the stored one, without its
\* Cache-Control and with the debug headers.
GetCacheResponse(entry, t) ==
  [status |-> entry.status, body |-> entry.body,
   headers |-> SetDebugHeaders(HDelete(entry.headers, "cache-control"), t)]

\* caches.default.match(req), then getCache's result: NoRes for undefined.
GetCacheResult(cch, u, t) ==
  IF u \in DOMAIN cch THEN GetCacheResponse(cch[u], t) ELSE NoRes

\* A putCache that stores the clone as it is.
PutCacheCloneUntouched(r) == r

\* putCache: the clone of res that is handed to caches.default.put.
PutCacheClone(r) ==
  [status |-> r.status, body |-> r.body,
   headers |-> HSet(r.headers, "cache-control",
                    "public, s-maxage=" \o ToString(CACHE_MAX_AGE))]

\* A putCache that hands nothing to waitUntil.
PutCacheNotScheduled(pend, u, r) == pend

\* A putCache that keys every entry by the main endpoint's url.
PutCacheUnderMainUrl(pend, u, r) ==
  pend \cup {[url |-> API_BASE_URL \o MainEndpoint, res |-> PutCacheClone(r)]}

\* putCache(ctx, url, res): the promises waitUntil holds afterwards.
PutCache(pend, u, r) == pend \cup {[url |-> u, res |-> PutCacheClone(r)]}

\* ---------------------------------------------------- worker (index.ts)
\* A #checkConfig that forgets the password.
CheckConfigEmailOnly(e) == ~(e.email = "")

\* #checkConfig: TRUE when it does not throw.
CheckConfig(e) == ~(e.email = "" \/ e.pw = "")

\* A #fetchWithCache that never returns what getCache found.
CacheHitNever(r) == FALSE

\* #fetchWithCache, line 49: if (res) return res.
CacheHit(r) == r # NoRes

\* A line 56 that stores nothing.
ShouldPutCacheNever(r) == FALSE

\* A line 56 that stores whatever the upstream answered.
ShouldPutCacheAlways(r) == TRUE

\* #fetchWithCache, line 56: if (res.ok) putCache(...).
ShouldPutCache(r) == ResOk(r)

\* A resolver that never trusts what KV holds.
UseCachedNever(cachedToken) == FALSE

\* #getRefreshToken / #getToken: if (cachedToken) return cachedToken.
UseCached(cachedToken) == Truthy(cachedToken)

\* A #getNewRefreshToken without the test of line 128.
RefreshTokenFoundAlways(json) == TRUE

\* #getNewRefreshToken, line 128: TRUE when json.refreshToken is accepted.
RefreshTokenFound(json) == Truthy(json.refreshToken)

\* #getNewIdToken, line 143: TRUE when json.idToken is accepted.
IdTokenFound(json) == Truthy(json.idToken)

\* A #getToken that reads the slot again instead of using what it resolved.
RefreshArgFromKv(c) == kv[REFRESH_TOKEN_KEY]

\* #getToken, line 84: the refresh token handed to #getNewIdToken.
RefreshArg(c) == refreshToken[c]

\* A #fetchWithCache that sends the refresh token as bearer.
BearerRefreshToken(c) == refreshToken[c]

\* #fetchWithCache, line 53: the bearer value of the Authorization header.
Bearer(c) == idToken[c]

\* A put that keeps the value a slot already holds.
KvPutIfAbsent(store, k, v) ==
  IF store[k] = NoToken THEN [store EXCEPT ![k] = v] ELSE store

\* env.KV.put(key, value, {expirationTtl}): replaces the slot.
KvPut(store, k, v) == [store EXCEPT ![k] = v]

Log(c, op, v) == [trace EXCEPT ![c] = Append(@, Ev(op, v))]

locals == <<url, refreshToken, idToken, res, err, lookup, trace, idAtCall>>
ghosts == <<lastNon2xx, lastWrite>>
timing == <<kvTimes, held>>

\* The calls that have started and not yet returned or thrown.
InFlight == {c \in Calls : pc[c] \notin {"idle", "done", "failed"}}

\* get(endpoint): #checkConfig, then #fetchWithCache up to its first await.
Get(c, e) ==
  /\ pc[c] = "idle"
  /\ Cardinality(pending) + Cardinality(InFlight) < MaxPending
  /\ IF CheckConfig(env)
     THEN /\ pc' = [pc EXCEPT ![c] = "match"]
          /\ url' = [url EXCEPT ![c] = API_BASE_URL \o e]
          /\ err' = err
     ELSE /\ pc' = [pc EXCEPT ![c] = "failed"]
          /\ err' = [err EXCEPT ![c] = "JQUANTS_API_EMAIL or JQUANTS_API_PW is not set"]
          /\ url' = url
  /\ UNCHANGED <<shared, refreshToken, idToken, res, lookup, trace, idAtCall,
                 ghosts, timing>>

\* await getCache(url): the cache backend answers, or raises.
GetCache(c) ==
  /\ pc[c] = "match"
  /\ trace' = Log(c, "cache_match", NoToken)
  /\ \/ LET r == GetCacheResult(cache, url[c], now) IN
        /\ lookup' = [lookup EXCEPT ![c] =
                         IF url[c] \in DOMAIN cache THEN "hit" ELSE "miss"]
        /\ IF CacheHit(r)
           THEN /\ pc' = [pc EXCEPT ![c] = "done"]
                /\ res' = [res EXCEPT ![c] = r]
                /\ UNCHANGED <<idAtCall, err>>
           ELSE /\ pc' = [pc EXCEPT ![c] = "get_refresh"]
                /\ idAtCall' = [idAtCall EXCEPT ![c] = kv[ID_TOKEN_KEY] # NoToken]
                /\ UNCHANGED <<res, err>>
     \/ /\ pc' = [pc EXCEPT ![c] = "failed"]
        /\ err' = [err EXCEPT ![c] = "cache match failed"]
        /\ lookup' = [lookup EXCEPT ![c] = "error"]
        /\ UNCHANGED <<res, idAtCall>>
  /\ UNCHANGED <<shared, url, refreshToken, idToken, ghosts, timing>>

\* #getRefreshToken: await KV.get("refresh_token").
GetRefreshToken(c) ==
  /\ pc[c] = "get_refresh"
  /\ LET cachedToken == kv[REFRESH_TOKEN_KEY] IN
       /\ trace' = Log(c, "kv_get_refresh", cachedToken)
       /\ IF UseCached(cachedToken)
          THEN /\ refreshToken' = [refreshToken EXCEPT ![c] = cachedToken]
               /\ held' = [held EXCEPT ![c][REFRESH_TOKEN_KEY] =
                             [kvTimes[REFRESH_TOKEN_KEY] EXCEPT !.got = Hours(now)]]
               /\ pc' = [pc EXCEPT ![c] = "get_id"]
          ELSE /\ pc' = [pc EXCEPT ![c] = "auth_user"]
               /\ UNCHANGED <<refreshToken, held>>
  /\ UNCHANGED <<shared, url, idToken, res, err, lookup, idAtCall, ghosts,
                 kvTimes>>

\* The JSON bodies the upstream may answer: an error body without the token
\* field, or a token it has not issued before.
AuthUserAnswers ==
  {[refreshToken |-> NoToken]} \cup
  (IF issuedRefresh < MaxIssue
   THEN {[refreshToken |-> RefreshTok(issuedRefresh + 1)]} ELSE {})

\* The upstream mints an id token only for a refresh token it issued.
AuthRefreshAnswers(rt) ==
  {[idToken |-> NoToken]} \cup
  (IF issuedId < MaxIssue /\ rt.kind = "refresh" /\ rt.n \in 1..issuedRefresh
   THEN {[idToken |-> IdTok(issuedId + 1)]} ELSE {})

\* The upstream serves data (2xx) only to a bearer id token it issued.
DataAnswers(answers, bearer) ==
  IF bearer.kind = "id" /\ bearer.n \in 1..issuedId
  THEN answers
  ELSE {r \in answers : ~ResOk(r)}

\* #getNewRefreshToken: POST /v1/token/auth_user and read its JSON.
GetNewRefreshToken(c) ==
  /\ pc[c] = "auth_user"
  /\ \/ \E json \in AuthUserAnswers :
          /\ trace' = Log(c, "auth_user", json.refreshToken)
          /\ issuedRefresh' = IF Truthy(json.refreshToken)
                              THEN issuedRefresh + 1 ELSE issuedRefresh
          /\ IF RefreshTokenFound(json)
             THEN /\ refreshToken' = [refreshToken EXCEPT ![c] = json.refreshToken]
                  /\ held' = [held EXCEPT ![c][REFRESH_TOKEN_KEY] =
                                [issued |-> Hours(now), written |-> Hours(now),
                                 got |-> Hours(now), used |-> 0]]
                  /\ pc' = [pc EXCEPT ![c] = "put_refresh"]
                  /\ err' = err
             ELSE /\ pc' = [pc EXCEPT ![c] = "failed"]
                  /\ err' = [err EXCEPT ![c] = "JQuants refresh token not found in response"]
                  /\ UNCHANGED <<refreshToken, held>>
     \/ /\ trace' = Log(c, "auth_user", NoToken)
        /\ pc' = [pc EXCEPT ![c] = "failed"]
        /\ err' = [err EXCEPT ![c] = "auth_user failed"]
        /\ UNCHANGED <<issuedRefresh, refreshToken, held>>
  /\ UNCHANGED <<env, now, kv, cache, pending, issuedId, url, idToken, res,
                 lookup, idAtCall, ghosts, kvTimes>>

\* #getRefreshToken: await KV.put("refresh_token", newToken, ttl).
PutRefreshToken(c) ==
  /\ pc[c] = "put_refresh"
  /\ kv' = KvPut(kv, REFRESH_TOKEN_KEY, refreshToken[c])
  /\ lastWrite' = [lastWrite EXCEPT ![REFRESH_TOKEN_KEY] = refreshToken[c]]
  /\ kvTimes' = [kvTimes EXCEPT ![REFRESH_TOKEN_KEY] =
                    [issued |-> held[c][REFRESH_TOKEN_KEY].issued,
                     written |-> Hours(now), got |-> 0, used |-> 0]]
  /\ held' = [held EXCEPT ![c][REFRESH_TOKEN_KEY].written = Hours(now)]
  /\ trace' = Log(c, "kv_put_refresh", refreshToken[c])
  /\ pc' = [pc EXCEPT ![c] = "get_id"]
  /\ UNCHANGED <<env, now, cache, pending, issuedRefresh, issuedId, url,
                 refreshToken, idToken, res, err, lookup, idAtCall, lastNon2xx>>

\* #getToken: await KV.get("id_token").
GetToken(c) ==
  /\ pc[c] = "get_id"
  /\ LET cachedToken == kv[ID_TOKEN_KEY] IN
       /\ trace' = Log(c, "kv_get_id", cachedToken)
       /\ IF UseCached(cachedToken)
          THEN /\ idToken' = [idToken EXCEPT ![c] = cachedToken]
               /\ held' = [held EXCEPT ![c][ID_TOKEN_KEY] =
                             [kvTimes[ID_TOKEN_KEY] EXCEPT !.got = Hours(now)]]
               /\ pc' = [pc EXCEPT ![c] = "fetch"]
          ELSE /\ pc' = [pc EXCEPT ![c] = "auth_refresh"]
               /\ UNCHANGED <<idToken, held>>
  /\ UNCHANGED <<shared, url, refreshToken, res, err, lookup, idAtCall, ghosts,
                 kvTimes>>

\* #getNewIdToken(refreshToken): POST /v1/token/auth_refresh and read its JSON.
GetNewIdToken(c) ==
  /\ pc[c] = "auth_refresh"
  /\ trace' = Log(c, "auth_refresh", RefreshArg(c))
  /\ \/ \E json \in AuthRefreshAnswers(RefreshArg(c)) :
          /\ issuedId' = IF Truthy(json.idToken) THEN issuedId + 1 ELSE issuedId
          /\ IF IdTokenFound(json)
             THEN /\ idToken' = [idToken EXCEPT ![c] = json.idToken]
                  /\ held' = [held EXCEPT
                                ![c][REFRESH_TOKEN_KEY].used = Hours(now),
                                ![c][ID_TOKEN_KEY] =
                                   [issued |-> Hours(now), written |-> Hours(now),
                                    got |-> Hours(now), used |-> 0]]
                  /\ pc' = [pc EXCEPT ![c] = "put_id"]
                  /\ err' = err
             ELSE /\ pc' = [pc EXCEPT ![c] = "failed"]
                  /\ err' = [err EXCEPT ![c] = "JQuants ID token not found in response"]
                  /\ held' = [held EXCEPT
                                ![c][REFRESH_TOKEN_KEY].used = Hours(now)]
                  /\ idToken' = idToken
     \/ /\ pc' = [pc EXCEPT ![c] = "failed"]
        /\ err' = [err EXCEPT ![c] = "auth_refresh failed"]
        /\ held' = [held EXCEPT ![c][REFRESH_TOKEN_KEY].used = Hours(now)]
        /\ UNCHANGED <<issuedId, idToken>>
  /\ UNCHANGED <<env, now, kv, cache, pending, issuedRefresh, url, refreshToken,
                 res, lookup, idAtCall, ghosts, kvTimes>>

\* #getToken: await KV.put("id_token", newToken, ttl).
PutIdToken(c) ==
  /\ pc[c] = "put_id"
  /\ kv' = KvPut(kv, ID_TOKEN_KEY, idToken[c])
  /\ lastWrite' = [lastWrite EXCEPT ![ID_TOKEN_KEY] = idToken[c]]
  /\ kvTimes' = [kvTimes EXCEPT ![ID_TOKEN_KEY] =
                    [issued |-> held[c][ID_TOKEN_KEY].issued,
                     written |-> Hours(now), got |-> 0, used |-> 0]]
  /\ held' = [held EXCEPT ![c][ID_TOKEN_KEY].written = Hours(now)]
  /\ trace' = Log(c, "kv_put_id", idToken[c])
  /\ pc' = [pc EXCEPT ![c] = "fetch"]
  /\ UNCHANGED <<env, now, cache, pending, issuedRefresh, issuedId, url,
                 refreshToken, idToken, res, err, lookup, idAtCall, lastNon2xx>>

\* #fetchWithCache: await fetch(url, Bearer token), then putCache when ok;
\* answers are the responses the upstream may give.
FetchFrom(c, answers) ==
  /\ pc[c] = "fetch"
  /\ \/ \E r \in DataAnswers(answers, Bearer(c)) :
          /\ res' = [res EXCEPT ![c] = r]
          /\ pc' = [pc EXCEPT ![c] = "done"]
          /\ lastNon2xx' = IF ResOk(r) THEN lastNon2xx \ {url[c]}
                            ELSE lastNon2xx \cup {url[c]}
          /\ IF ShouldPutCache(r)
             THEN /\ pending' = PutCache(pending, url[c], r)
                  /\ trace' = [trace EXCEPT ![c] =
                                 @ \o <<Ev("upstream_get", Bearer(c)),
                                        Ev("cache_put", NoToken)>>]
             ELSE /\ pending' = pending
                  /\ trace' = Log(c, "upstream_get", Bearer(c))
          /\ err' = err
     \/ /\ pc' = [pc EXCEPT ![c] = "failed"]
        /\ err' = [err EXCEPT ![c] = "fetch failed"]
        /\ trace' = Log(c, "upstream_get", Bearer(c))
        /\ UNCHANGED <<res, pending, lastNon2xx>>
  /\ held' = [held EXCEPT ![c][ID_TOKEN_KEY].used = Hours(now)]
  /\ UNCHANGED <<env, now, kv, cache, issuedRefresh, issuedId, url,
                 refreshToken, idToken, lookup, idAtCall, lastWrite, kvTimes>>

Fetch(c) == FetchFrom(c, UpstreamResponses(url[c], now))
FetchPlain(c) == FetchFrom(c, PlainResponses(url[c], now))

\* The caller has its response, or its error; the call slot is free again.
Return(c) ==
  /\ pc[c] \in {"done", "failed"}
  /\ pc' = [pc EXCEPT ![c] = "idle"]
  /\ url' = [url EXCEPT ![c] = ""]
  /\ refreshToken' = [refreshToken EXCEPT ![c] = NoToken]
  /\ idToken' = [idToken EXCEPT ![c] = NoToken]
  /\ res' = [res EXCEPT ![c] = NoRes]
  /\ err' = [err EXCEPT ![c] = ""]
  /\ lookup' = [lookup EXCEPT ![c] = "none"]
  /\ trace' = [trace EXCEPT ![c] = <<>>]
  /\ idAtCall' = [idAtCall EXCEPT ![c] = FALSE]
  /\ held' = [held EXCEPT ![c] = [k \in KvKeys |-> NoTimes]]
  /\ UNCHANGED <<shared, ghosts, kvTimes>>

\* ----------------------------------------------------- the environment
\* A waitUntil that lets go of the promise before the put is done.
CachePutLost(p) ==
  /\ p \in pending
  /\ pending' = pending \ {p}
  /\ UNCHANGED <<env, now, kv, cache, issuedRefresh, issuedId, pc, locals, ghosts,
                 timing>>

\* ctx.waitUntil(caches.default.put(req, newRes)): the put lands.
CachePutLands(p) ==
  /\ p \in pending
  /\ cache' = [u \in DOMAIN cache \cup {p.url} |->
                 IF u = p.url THEN p.res ELSE cache[u]]
  /\ pending' = pending \ {p}
  /\ UNCHANGED <<env, now, kv, issuedRefresh, issuedId, pc, locals, ghosts,
                 timing>>

\* ... or the backend rejects it: nobody awaits the promise.
CachePutFails(p) ==
  /\ p \in pending
  /\ pending' = pending \ {p}
  /\ UNCHANGED <<env, now, kv, cache, issuedRefresh, issuedId, pc, locals,
                 ghosts, timing>>

\* The edge cache drops an entry (s-maxage elapsed, or eviction).
CacheExpire(u) ==
  /\ u \in DOMAIN cache
  /\ cache' = [v \in DOMAIN cache \ {u} |-> cache[v]]
  /\ UNCHANGED <<env, now, kv, pending, issuedRefresh, issuedId, pc, locals,
                 ghosts, timing>>

\* KV drops a key whose expirationTtl elapsed.
KvExpire(k) ==
  /\ kv[k] # NoToken
  /\ kv' = [kv EXCEPT ![k] = NoToken]
  /\ lastWrite' = [lastWrite EXCEPT ![k] = NoToken]
  /\ kvTimes' = [kvTimes EXCEPT ![k] = NoTimes]
  /\ UNCHANGED <<env, now, cache, pending, issuedRefresh, issuedId, pc, locals,
                 lastNon2xx, held>>

\* A store whose keys live as long as the upstream's tokens do.
KvTtlUpstreamExpiry(k) ==
  IF k = REFRESH_TOKEN_KEY THEN REFRESH_TOKEN_EXPIRY ELSE ID_TOKEN_EXPIRY

\* The expirationTtl (seconds) the code gives to each key.
KvTtl(k) == IF k = REFRESH_TOKEN_KEY THEN REFRESH_TOKEN_TTL ELSE ID_TOKEN_TTL

\* Slot k's value is past its expirationTtl at hour h.
KvTtlElapsed(store, k, h) ==
  store[k] # NoToken /\ 3600 * h >= 3600 * kvTimes[k].written + KvTtl(k)

\* The hours at which the clock is looked at when hours and days pass: the
\* start and half a day later, the hours around the end of an id token
\* written at the start, and those around the end of a refresh token issued
\* at the start and written half a day later.
HalfDay == 12
Instants ==
  {0, HalfDay, MaxHours}
  \cup {ID_TOKEN_TTL \div 3600, ID_TOKEN_EXPIRY \div 3600}
  \cup {HalfDay + REFRESH_TOKEN_TTL \div 3600 - 1,
        REFRESH_TOKEN_EXPIRY \div 3600 - 2}

\* d hours pass: KV drops the keys whose expirationTtl has elapsed, and the
\* edge cache the entries whose s-maxage has.
PassHours(d) ==
  /\ d > 0
  /\ Hours(now) + d <= MaxHours
  /\ now' = now + d * 3600000
  /\ kv' = [k \in KvKeys |->
              IF KvTtlElapsed(kv, k, Hours(now) + d) THEN NoToken ELSE kv[k]]
  /\ lastWrite' = [k \in KvKeys |->
              IF KvTtlElapsed(kv, k, Hours(now) + d) THEN NoToken ELSE lastWrite[k]]
  /\ kvTimes' = [k \in KvKeys |->
              IF KvTtlElapsed(kv, k, Hours(now) + d) THEN NoTimes ELSE kvTimes[k]]
  /\ cache' = IF d * 3600 >= CACHE_MAX_AGE THEN [u \in {} |-> NoRes] ELSE cache
  /\ UNCHANGED <<env, pending, issuedRefresh, issuedId, pc, locals, lastNon2xx,
                 held>>

\* Time passes.
Tick ==
  /\ now < MaxTicks * 500
  /\ now' = now + 500
  /\ UNCHANGED <<env, kv, cache, pending, issuedRefresh, issuedId, pc, locals,
                 ghosts, timing>>

\* The worker is redeployed with other secrets; KV and the cache stay.
Deploy(e) ==
  /\ \A c \in Calls : pc[c] = "idle"
  /\ e # env
  /\ env' = e
  /\ UNCHANGED <<now, kv, cache, pending, issuedRefresh, issuedId, pc, locals,
                 ghosts, timing>>

\* One step of call c after it has started, the upstream GET apart.
CallStep(c) ==
  \/ GetCache(c)
  \/ GetRefreshToken(c)
  \/ GetNewRefreshToken(c)
  \/ PutRefreshToken(c)
  \/ GetToken(c)
  \/ GetNewIdToken(c)
  \/ PutIdToken(c)
  \/ Return(c)

\* What happens without any call taking a step.
Background ==
  \/ \E p \in pending : CachePutLands(p)
  \/ \E p \in pending : CachePutFails(p)
  \/ \E u \in Urls : CacheExpire(u)
  \/ \E k \in KvKeys : KvExpire(k)

\* Calls made one after the other while time passes and the worker may be
\* redeployed.
Next ==
  \/ \E c \in Calls :
       (\A d \in Calls : pc[d] = "idle") /\ Get(c, MainEndpoint)
  \/ \E c \in Calls : CallStep(c)
  \/ \E c \in Calls : Fetch(c)
  \/ Background
  \/ Tick
  \/ \E e \in Envs : Deploy(e)

Spec == Init /\ [][Next]_vars

\* Calls that run concurrently, all to the same endpoint, which the upstream
\* answers plainly.
NextConc ==
  \/ \E c \in Calls : Get(c, MainEndpoint)
  \/ \E c \in Calls : CallStep(c)
  \/ \E c \in Calls : FetchPlain(c)
  \/ Background

SpecConc == Init /\ [][NextConc]_vars

\* Calls made one after the other while hours and days pass: keys leave KV
\* exactly when their expirationTtl has elapsed.
NextTtl ==
  \/ \E c \in Calls :
       (\A d \in Calls : pc[d] = "idle") /\ Get(c, MainEndpoint)
  \/ \E c \in Calls : CallStep(c)
  \/ \E c \in Calls : FetchPlain(c)
  \/ \E p \in pending : CachePutLands(p)
  \/ \E p \in pending : CachePutFails(p)
  \/ \E h \in Instants : PassHours(h - Hours(now))

SpecTtl == Init /\ [][NextTtl]_vars

\* Concurrent calls to any of the endpoints, over tokens that do not expire.
NextUrls ==
  \/ \E c \in Calls : \E e \in Endpoints : Get(c, e)
  \/ \E c \in Calls : CallStep(c)
  \/ \E c \in Calls : FetchPlain(c)
  \/ \E p \in pending : CachePutLands(p)
  \/ \E p \in pending : CachePutFails(p)
  \/ \E u \in Urls : CacheExpire(u)

SpecUrls == Init /\ [][NextUrls]_vars

\* The puts a call to the main endpoint can schedule at instant 0.
MainPuts ==
  { [url |-> API_BASE_URL \o MainEndpoint, res |-> PutCacheClone(r)] :
      r \in {a \in UpstreamResponses(API_BASE_URL \o MainEndpoint, 0) : ResOk(a)} }

\* Calls made one after the other over a cache backend whose puts do not
\* fail; waitUntil keeps the worker alive until each put has settled.
NextLive ==
  \/ \E c \in Calls :
       (\A d \in Calls : pc[d] = "idle") /\ Get(c, MainEndpoint)
  \/ \E c \in Calls : CallStep(c)
  \/ \E c \in Calls : Fetch(c)
  \/ \E p \in pending : CachePutLands(p)
  \/ \E u \in Urls : CacheExpire(u)
  \/ \E k \in KvKeys : KvExpire(k)

SpecLive ==
  /\ Init /\ [][NextLive]_vars
  /\ \A p \in MainPuts : WF_vars(CachePutLands(p))

\* ------------------------------------------------------------ claims
MissingCredentials == env.email = "" \/ env.pw = ""
OnlyCacheMatch == <<Ev("cache_match", NoToken)>>

\* C1: when the cache holds an entry for the call's url at the lookup (and
\* the backend answers), the call returns that entry at once, and all it has
\* done and will ever do is the lookup: no KV read or write, no auth_user,
\* no auth_refresh, no upstream GET, no cache put.
C1_HitReturnsEntryWithoutWork ==
  /\ [](\A c \in Calls :
          lookup[c] = "hit" => pc[c] = "done" /\ trace[c] = OnlyCacheMatch)
  /\ [][\A c \in Calls :
          (pc[c] = "match" /\ pc'[c] # "match" /\ url[c] \in DOMAIN cache
             /\ lookup'[c] # "error")
          => /\ lookup'[c] = "hit"
             /\ res'[c].status = cache[url[c]].status
             /\ res'[c].body = cache[url[c]].body
             /\ UNCHANGED <<kv, cache, pending, issuedRefresh, issuedId>>]_vars

\* C1, witness: a call served from the cache while KV holds an id token.
C1_Witness ==
  \E c \in Calls :
     /\ lookup[c] = "hit" /\ pc[c] = "done"
     /\ res[c].body = UpstreamBody(url[c])
     /\ kv[ID_TOKEN_KEY] # NoToken

\* C2: with the e-mail address or the password missing, a call that has
\* started has failed with the configuration error and has done nothing
\* else: no cache lookup, no KV operation, no request to the upstream.
C2_MissingCredentialsFailFirst ==
  \A c \in Calls :
     (MissingCredentials /\ pc[c] # "idle")
     => /\ pc[c] = "failed"
        /\ err[c] = "JQUANTS_API_EMAIL or JQUANTS_API_PW is not set"
        /\ trace[c] = <<>>
        /\ lookup[c] = "none"
        /\ res[c] = NoRes

\* C2, witness: a failed call of a worker without password, over a warm
\* cache and with both tokens in KV.
C2_Witness ==
  \E c \in Calls :
     /\ pc[c] = "failed" /\ env.pw = "" /\ env.email # ""
     /\ DOMAIN cache # {}
     /\ kv[ID_TOKEN_KEY] # NoToken /\ kv[REFRESH_TOKEN_KEY] # NoToken

Is2xx(r) == r.status \in 200..299
PendingFor(pend, u) == {p \in pend : p.url = u}
\* Call c receives a 2xx answer to its upstream GET of u in this step.
Gets2xx(c, u) ==
  pc[c] = "fetch" /\ pc'[c] = "done" /\ url[c] = u /\ Is2xx(res'[c])

\* C3, as stated: a non-2xx answer is returned as it came and no put is
\* scheduled for it, and a call that follows a non-2xx result for its url,
\* with no 2xx result in between, misses the cache.
C3_AfterNon2xxAlwaysMiss ==
  [][\A c \in Calls :
       /\ (pc[c] = "fetch" /\ pc'[c] = "done" /\ ~Is2xx(res'[c]))
          => (res'[c] \in UpstreamResponses(url[c], now) /\ pending' = pending)
       /\ (pc[c] = "match" /\ pc'[c] # "match" /\ url[c] \in lastNon2xx)
          => lookup'[c] # "hit"]_vars

\* C3, amended: a non-2xx answer is returned as it came, schedules no put and
\* changes nothing in the cache; entries and scheduled puts are 2xx responses
\* only; while a url has neither an entry nor a scheduled put, nothing but a
\* 2xx answer for that url gives it one (so a call after a non-2xx result
\* misses unless a put scheduled by an earlier 2xx result lands in between);
\* and a call that missed and returned a response has issued the upstream GET.
C3_Non2xxNeverCached ==
  /\ [](/\ \A u \in DOMAIN cache : Is2xx(cache[u])
        /\ \A p \in pending : Is2xx(p.res)
        /\ \A c \in Calls :
             (pc[c] = "done" /\ lookup[c] = "miss") => "upstream_get" \in Ops(c))
  /\ [][/\ \A c \in Calls :
             (pc[c] = "fetch" /\ pc'[c] = "done" /\ ~Is2xx(res'[c]))
             => /\ res'[c] \in UpstreamResponses(url[c], now)
                /\ pending' = pending /\ cache' = cache
                /\ trace'[c] = Append(trace[c], Ev("upstream_get", idToken[c]))
        /\ \A u \in Urls :
             (/\ u \notin DOMAIN cache /\ PendingFor(pending, u) = {}
              /\ ~\E c \in Calls : Gets2xx(c, u))
             => (u \notin DOMAIN cache' /\ PendingFor(pending', u) = {})]_vars

\* C3, witness: a call that follows a non-2xx result has missed the cache and
\* is about to issue the upstream GET again, with the id token found in KV.
C3_Witness ==
  \E c \in Calls :
     /\ pc[c] = "fetch" /\ lookup[c] = "miss" /\ url[c] \in lastNon2xx
     /\ idAtCall[c] /\ DOMAIN cache = {} /\ pending = {}

\* C4, as stated for the id token: a call that invoked #getToken while KV
\* held an id token, and went on with the id token it read from KV, has made
\* no auth_user call.
C4_CachedIdTokenNoAuthUser ==
  \A c \in Calls :
     (idAtCall[c] /\ pc[c] \in {"fetch", "done"} /\ "kv_put_id" \notin Ops(c))
     => "auth_user" \notin Ops(c)

\* The positions of the operations op in call c's trace.
At(c, op) == {i \in DOMAIN trace[c] : trace[c][i].op = op}

\* C5: every auth_refresh request carries a non-empty refresh token that the
\* same call resolved before: read from the refresh_token slot, or obtained
\* from auth_user; and when the slot was read empty, auth_user came between.
C5_RefreshTokenResolvedFirst ==
  \A c \in Calls :
     /\ \A i \in At(c, "auth_refresh") :
          LET v == trace[c][i].val IN
            /\ v # NoToken /\ v.kind = "refresh"
            /\ \E j \in 1..(i - 1) :
                 /\ trace[c][j].op \in {"kv_get_refresh", "auth_user"}
                 /\ trace[c][j].val = v
            /\ \A j \in At(c, "kv_get_refresh") :
                 trace[c][j].val = NoToken
                 => \E m \in At(c, "auth_user") :
                       j < m /\ m < i /\ trace[c][m].val = v
     /\ pc[c] = "auth_refresh"
        => /\ refreshToken[c] # NoToken
           /\ \E j \in DOMAIN trace[c] :
                /\ trace[c][j].op \in {"kv_get_refresh", "auth_user"}
                /\ trace[c][j].val = refreshToken[c]

\* C5, witness: a call has sent auth_refresh with the refresh token it got
\* from auth_user, while the slot meanwhile holds another call's token.
C5_Witness ==
  \E c \in Calls : \E i \in At(c, "auth_refresh") :
     /\ \E j \in At(c, "auth_user") : trace[c][j].val = trace[c][i].val
     /\ kv[REFRESH_TOKEN_KEY] \notin {NoToken, trace[c][i].val}

\* C6: an acquisition that fails (the request fails, or the JSON lacks the
\* token) fails the call in that step and writes nothing: KV, the cache and
\* the scheduled puts stay as they were; a failed acquisition is the call's
\* last operation, so no put of that variant, no upstream GET and no cache
\* put follows; an acquisition that does not fail yields a non-empty token.
C6_FailedAcquisitionStoresNothing ==
  /\ [](\A c \in Calls :
          /\ (pc[c] = "failed" /\ err[c] \in
                {"auth_user failed", "JQuants refresh token not found in response"})
             => /\ trace[c][Len(trace[c])].op = "auth_user"
                /\ Ops(c) \cap {"kv_put_refresh", "kv_put_id", "auth_refresh",
                                "upstream_get", "cache_put"} = {}
          /\ (pc[c] = "failed" /\ err[c] \in
                {"auth_refresh failed", "JQuants ID token not found in response"})
             => /\ trace[c][Len(trace[c])].op = "auth_refresh"
                /\ Ops(c) \cap {"kv_put_id", "upstream_get", "cache_put"} = {})
  /\ [][\A c \in Calls :
          /\ (pc[c] = "auth_user" /\ pc'[c] # "auth_user")
             => \/ /\ pc'[c] = "failed"
                   /\ UNCHANGED <<kv, cache, pending>>
                \/ /\ pc'[c] = "put_refresh"
                   /\ refreshToken'[c] # NoToken
                   /\ trace'[c][Len(trace'[c])].val = refreshToken'[c]
          /\ (pc[c] = "auth_user" /\ pc'[c] # "auth_user"
                /\ trace'[c][Len(trace'[c])].val = NoToken)
             => pc'[c] = "failed"
          /\ (pc[c] = "auth_refresh" /\ pc'[c] # "auth_refresh")
             => \/ /\ pc'[c] = "failed"
                   /\ UNCHANGED <<kv, cache, pending>>
                \/ /\ pc'[c] = "put_id"
                   /\ idToken'[c] # NoToken]_vars

\* C6, witness: an id token acquisition has failed on a JSON without idToken,
\* after the call had stored a new refresh token; the id_token slot is empty.
C6_Witness ==
  \E c \in Calls :
     /\ pc[c] = "failed" /\ err[c] = "JQuants ID token not found in response"
     /\ "kv_put_refresh" \in Ops(c)
     /\ kv[ID_TOKEN_KEY] = NoToken /\ kv[REFRESH_TOKEN_KEY] # NoToken

PutOp(k) == IF k = REFRESH_TOKEN_KEY THEN "kv_put_refresh" ELSE "kv_put_id"
\* The token of variant k that call c holds.
Tok(c, k) == IF k = REFRESH_TOKEN_KEY THEN refreshToken[c] ELSE idToken[c]
\* v is a token of variant k that the upstream has issued.
IssuedTok(v, k) ==
  IF k = REFRESH_TOKEN_KEY
  THEN v.kind = "refresh" /\ v.n \in 1..issuedRefresh
  ELSE v.kind = "id" /\ v.n \in 1..issuedId

\* C7: under any interleaving of the calls' KV reads, auth requests and KV
\* writes, a slot holds exactly the value handed to the latest put that has
\* not expired, which is a token the upstream issued; when all calls have
\* missed the same variant and returned, each holds an issued, non-empty token
\* of that variant and the slot holds one of them; every put stores the whole
\* non-empty token of the call that makes it, and only the expiry of the ttl
\* (a step of no call) empties a slot.
C7_ConcurrentMissesLeaveValidSlot ==
  /\ [](\A k \in KvKeys :
          /\ kv[k] = lastWrite[k]
          /\ kv[k] # NoToken => IssuedTok(kv[k], k)
          /\ (\A c \in Calls : pc[c] = "done" /\ PutOp(k) \in Ops(c))
             => /\ \A c \in Calls : Tok(c, k) # NoToken /\ IssuedTok(Tok(c, k), k)
                /\ kv[k] # NoToken => kv[k] \in {Tok(c, k) : c \in Calls})
  /\ [][/\ \A k \in KvKeys :
             (kv[k] # NoToken /\ kv'[k] = NoToken) => UNCHANGED <<pc, trace>>
        /\ \A c \in Calls :
             /\ (pc[c] = "put_refresh" /\ pc'[c] # "put_refresh")
                => /\ kv'[REFRESH_TOKEN_KEY] = refreshToken[c]
                   /\ refreshToken[c] # NoToken
                   /\ kv'[ID_TOKEN_KEY] = kv[ID_TOKEN_KEY]
             /\ (pc[c] = "put_id" /\ pc'[c] # "put_id")
                => /\ kv'[ID_TOKEN_KEY] = idToken[c]
                   /\ idToken[c] # NoToken
                   /\ kv'[REFRESH_TOKEN_KEY] = kv[REFRESH_TOKEN_KEY]]_vars

\* C7, witness: all calls missed both variants and have returned, each with
\* tokens of its own; the slots hold tokens of the last writers.
C7_Witness ==
  /\ \A c \in Calls :
       pc[c] = "done" /\ {"kv_put_refresh", "kv_put_id"} \subseteq Ops(c)
  /\ \A c, d \in Calls :
       c # d => refreshToken[c] # refreshToken[d] /\ idToken[c] # idToken[d]
  /\ \E c \in Calls : kv[REFRESH_TOKEN_KEY] = refreshToken[c]
  /\ \E c \in Calls : kv[ID_TOKEN_KEY] = idToken[c]

\* C8, as stated: a lookup on which the cache backend raised an error does
\* not fail the call (it counts as a miss and the call goes on).
C8_LookupErrorIsMiss ==
  \A c \in Calls :
     lookup[c] = "error" => ~(pc[c] = "failed" /\ err[c] = "cache match failed")

\* The upstream's own Cache-Control forbids storing the response.
OptsOut(r) ==
  HHas(r.headers, "cache-control")
    /\ r.headers["cache-control"] \in {"no-store", "private"}

\* C9, as stated: a 2xx upstream response that came with a cache-control
\* opt-out is returned to the caller and no put is scheduled for it.
C9_OptOutNeverStored ==
  \A c \in Calls :
     (pc[c] = "done" /\ lookup[c] = "miss" /\ Is2xx(res[c]) /\ OptsOut(res[c]))
     => "cache_put" \notin Ops(c)

DebugKeys == {"cache-control", "x-proxy-cache-age", "x-proxy-cache-maxage"}
\* Outside cache-control and the two debug headers, served has stored's headers.
SameOtherHeaders(stored, served) ==
  /\ DOMAIN stored \ DebugKeys = DOMAIN served \ DebugKeys
  /\ \A k \in DOMAIN stored \ DebugKeys : served[k] = stored[k]
\* Call c's lookup finds an entry in this step.
Hits(c) == pc[c] = "match" /\ lookup'[c] = "hit"

\* C10, as stated: a hit returns the stored status, body and headers, but
\* without cache-control, with x-proxy-cache-age, and with
\* x-proxy-cache-maxage equal to 600.
C10_HitHasBothDebugHeaders ==
  [][\A c \in Calls :
       Hits(c) =>
         LET stored == cache[url[c]]
             served == res'[c]
         IN /\ served.status = stored.status /\ served.body = stored.body
            /\ ~HHas(served.headers, "cache-control")
            /\ HHas(served.headers, "x-proxy-cache-age")
            /\ HHas(served.headers, "x-proxy-cache-maxage")
            /\ served.headers["x-proxy-cache-maxage"] = "600"
            /\ SameOtherHeaders(stored.headers, served.headers)]_vars

\* C10, amended: as stated, except that x-proxy-cache-age is set only when
\* the stored entry has a date header; without one it is left as stored,
\* that is absent for an entry that has none.
C10_HitHeaders ==
  [][\A c \in Calls :
       Hits(c) =>
         LET stored == cache[url[c]]
             served == res'[c]
         IN /\ served.status = stored.status /\ served.body = stored.body
            /\ ~HHas(served.headers, "cache-control")
            /\ HHas(stored.headers, "date")
               => HHas(served.headers, "x-proxy-cache-age")
            /\ ~HHas(stored.headers, "date")
               => (HHas(served.headers, "x-proxy-cache-age")
                     <=> HHas(stored.headers, "x-proxy-cache-age"))
            /\ HHas(served.headers, "x-proxy-cache-maxage")
            /\ served.headers["x-proxy-cache-maxage"] = "600"
            /\ SameOtherHeaders(stored.headers, served.headers)]_vars

\* C10, witness: a hit on an entry stored without a date header, served with
\* the max-age header and without the age header, cache-control removed.
C10_Witness ==
  \E c \in Calls :
     /\ pc[c] = "done" /\ lookup[c] = "hit"
     /\ ~HHas(cache[url[c]].headers, "date")
     /\ HHas(cache[url[c]].headers, "cache-control")
     /\ DOMAIN res[c].headers = {"x-proxy-cache-maxage"}

\* C11: a hit on an entry whose date header names the second T, served at
\* the instant 1000 * (T + d) + r ms with d whole seconds and r < 1000 ms,
\* carries x-proxy-cache-age equal to d, that is floor((now - T) / 1000);
\* a hit on an entry without a date header carries no age header; in both
\* cases x-proxy-cache-maxage is set, to 600.
C11_AgeIsWholeSecondsSinceDate ==
  [][\A c \in Calls :
       Hits(c) =>
         LET stored == cache[url[c]].headers
             served == res'[c].headers
         IN /\ HHas(stored, "date") =>
                 \A T, d \in 0..MaxTicks : \A r \in {0, 500} :
                    (stored["date"] = ToString(T) /\ now = 1000 * (T + d) + r)
                    => (HHas(served, "x-proxy-cache-age")
                          /\ served["x-proxy-cache-age"] = ToString(d))
            /\ HHas(stored, "date") =>
                 \E T, d \in 0..MaxTicks : \E r \in {0, 500} :
                    stored["date"] = ToString(T) /\ now = 1000 * (T + d) + r
            /\ ~HHas(stored, "date") => ~HHas(served, "x-proxy-cache-age")
            /\ HHas(served, "x-proxy-cache-maxage")
            /\ served["x-proxy-cache-maxage"] = "600"]_vars

\* C11, witness: an entry dated second 0 is served one second later, with
\* age 1.
C11_Witness ==
  \E c \in Calls :
     /\ pc[c] = "done" /\ lookup[c] = "hit" /\ now = 1000
     /\ HHas(res[c].headers, "date") /\ res[c].headers["date"] = "0"
     /\ res[c].headers["x-proxy-cache-age"] = "1"

\* Call c found the cache and both slots empty and every request it made to
\* the upstream succeeded: it returned a 2xx response.
ColdSuccess(c) ==
  /\ pc[c] = "done" /\ lookup[c] = "miss" /\ Is2xx(res[c])
  /\ \A i \in At(c, "kv_get_refresh") \cup At(c, "kv_get_id") :
        trace[c][i].val = NoToken

\* The operations of a cold call that obtains refresh token rt and id token
\* it, reads included.
ColdTrace(rt, it) ==
  << Ev("cache_match", NoToken),
     Ev("kv_get_refresh", NoToken),
     Ev("auth_user", rt),
     Ev("kv_put_refresh", rt),
     Ev("kv_get_id", NoToken),
     Ev("auth_refresh", rt),
     Ev("kv_put_id", it),
     Ev("upstream_get", it),
     Ev("cache_put", NoToken) >>

\* C12: a call that starts on an empty cache and an empty store, with valid
\* credentials and every upstream request succeeding, makes exactly these
\* requests and writes, in this order: auth_user, the write of refresh_token
\* with the token auth_user gave, auth_refresh carrying that token, the write
\* of id_token with the token auth_refresh gave, the upstream GET with that
\* id token as bearer, the scheduling of the cache put; then it returns the
\* response.  (Its only other operations are the reads that find the cache
\* and the two slots empty.)
C12_ColdCallOrder ==
  \A c \in Calls :
     ColdSuccess(c) =>
        /\ ~MissingCredentials
        /\ \E i \in 1..issuedRefresh : \E j \in 1..issuedId :
              trace[c] = ColdTrace(RefreshTok(i), IdTok(j))
        /\ res[c].body = UpstreamBody(url[c])
        /\ ENABLED Return(c)

\* C12, witness: the cold call has returned; both slots hold its tokens and
\* its cache put is scheduled.
C12_Witness ==
  \E c \in Calls :
     /\ ColdSuccess(c)
     /\ trace[c] = ColdTrace(RefreshTok(1), IdTok(1))
     /\ kv[REFRESH_TOKEN_KEY] = RefreshTok(1) /\ kv[ID_TOKEN_KEY] = IdTok(1)
     /\ PendingFor(pending, url[c]) # {} /\ DOMAIN cache = {}

\* The slack (seconds) between a key's ttl and the upstream's expiry: a day
\* for the refresh token, an hour for the id token.
Slack(k) == IF k = REFRESH_TOKEN_KEY THEN 60 * 60 * 24 ELSE 60 * 60
\* The upstream's expiry (seconds) of the token kept under key k.
UpstreamExpiry(k) ==
  IF k = REFRESH_TOKEN_KEY THEN REFRESH_TOKEN_EXPIRY ELSE ID_TOKEN_EXPIRY
\* The request in which a call presents the token of key k to the upstream.
PresentOp(k) == IF k = REFRESH_TOKEN_KEY THEN "auth_refresh" ELSE "upstream_get"
GetOp(k) == IF k = REFRESH_TOKEN_KEY THEN "kv_get_refresh" ELSE "kv_get_id"
\* Call c has presented its token of key k.
Presented(c, k) == PresentOp(k) \in Ops(c) /\ Tok(c, k) # NoToken
\* Call c read its token of key k from KV.
FromKv(c, k) == \E i \in At(c, GetOp(k)) : trace[c][i].val # NoToken
\* Seconds between the issue of c's token and its write to KV.
WriteDelay(c, k) == 3600 * (held[c][k].written - held[c][k].issued)
\* Seconds between c's getting hold of the written token (by reading it from
\* KV, or by writing it itself) and presenting it.
PresentDelay(c, k) ==
  3600 * (held[c][k].used -
            (IF FromKv(c, k) THEN held[c][k].got ELSE held[c][k].written))
\* The token was presented no later than the upstream's expiry of it.
PresentedInTime(c, k) ==
  3600 * held[c][k].used <= 3600 * held[c][k].issued + UpstreamExpiry(k)

\* C13, as stated: whenever the delay from issue to write and the delay from
\* read to presentation are each below the slack, the token is presented
\* before the upstream's expiry of it.
C13_EachDelayBelowSlack ==
  \A c \in Calls : \A k \in KvKeys :
     (Presented(c, k) /\ WriteDelay(c, k) < Slack(k)
                      /\ PresentDelay(c, k) < Slack(k))
     => PresentedInTime(c, k)

\* C13, amended: whenever the two delays together are below the slack, the
\* token is presented before the upstream's expiry of it; and a value read
\* from KV was written less than the key's ttl before the read.
C13_TotalDelayBelowSlack ==
  \A c \in Calls : \A k \in KvKeys :
     /\ (Presented(c, k) /\ WriteDelay(c, k) + PresentDelay(c, k) < Slack(k))
        => PresentedInTime(c, k)
     /\ (FromKv(c, k) /\ Tok(c, k) # NoToken)
        => 3600 * held[c][k].got
             < 3600 * held[c][k].written + UpstreamExpiry(k) - Slack(k)

\* C13, witness: a refresh token issued at hour 0 and written half a day
\* later is read in the last hour of its ttl and presented eleven hours
\* after that, two hours before the upstream's expiry.
C13_Witness ==
  \E c \in Calls :
     /\ Presented(c, REFRESH_TOKEN_KEY) /\ FromKv(c, REFRESH_TOKEN_KEY)
     /\ held[c][REFRESH_TOKEN_KEY] =
          [issued |-> 0, written |-> 12, got |-> 155, used |-> 166]

\* C14: the cache put is detached from the call.  The step that receives a
\* 2xx answer schedules the put and completes the call at once, so the call
\* can return while the put is pending; a call that scheduled a put never
\* fails; and the step in which a put lands or fails leaves every call's
\* position, response and error as they were.
C14_PutIsDetached ==
  /\ [](\A c \in Calls :
          /\ pc[c] = "done" => ENABLED Return(c)
          /\ "cache_put" \in Ops(c) => (pc[c] = "done" /\ err[c] = ""))
  /\ [][/\ \A c \in Calls : \A u \in Urls :
             Gets2xx(c, u) =>
                \E p \in pending' : p.url = u /\ p.res.body = res'[c].body
        /\ (\E p \in pending : p \notin pending')
             => UNCHANGED <<pc, res, err, trace, lookup>>]_vars

\* C14, witness: the call has returned its response to the caller and is
\* over, while its put has neither landed nor failed.
C14_Witness ==
  /\ \A c \in Calls : pc[c] = "idle"
  /\ pending # {} /\ DOMAIN cache = {}
  /\ kv[ID_TOKEN_KEY] # NoToken

\* C15, as stated: the response a cold call returns (empty cache, empty
\* store, valid credentials, 2xx upstream answer) carries both debug headers,
\* x-proxy-cache-age and x-proxy-cache-maxage.
C15_ColdResponseHasDebugHeaders ==
  \A c \in Calls :
     ColdSuccess(c) =>
        /\ HHas(res[c].headers, "x-proxy-cache-age")
        /\ HHas(res[c].headers, "x-proxy-cache-maxage")

\* The ttl (seconds) the interface gives to each slot: 6 days and 23 hours.
SlotTtl(k) == IF k = REFRESH_TOKEN_KEY THEN 6 * 86400 ELSE 23 * 3600
\* The value call c read from slot k.
ReadFromKv(c, k) == trace[c][CHOOSE i \in At(c, GetOp(k)) : TRUE].val

\* C16: with calls one after the other, the put that follows a successful
\* acquisition leaves in the slot exactly the token the call goes on with,
\* to live for the slot's ttl (6 days, 23 hours): the slot holds the value
\* of the latest put, only within its ttl, and loses it only when the ttl has
\* elapsed, never to another put.  A later call that misses the cache and
\* finds both slots filled makes no auth_user and no auth_refresh request and
\* no put, and issues its upstream GET with the id token it read.
C16_StoredTokensAreReused ==
  /\ [](/\ \A k \in KvKeys :
             kv[k] # NoToken =>
                /\ kv[k] = lastWrite[k]
                /\ 3600 * Hours(now) < 3600 * kvTimes[k].written + SlotTtl(k)
        /\ \A c \in Calls :
             (lookup[c] = "miss" /\ FromKv(c, REFRESH_TOKEN_KEY)
                                 /\ FromKv(c, ID_TOKEN_KEY))
             => /\ Ops(c) \cap {"auth_user", "auth_refresh",
                                "kv_put_refresh", "kv_put_id"} = {}
                /\ idToken[c] = ReadFromKv(c, ID_TOKEN_KEY)
                /\ \A i \in At(c, "upstream_get") :
                      trace[c][i].val = ReadFromKv(c, ID_TOKEN_KEY))
  /\ [][/\ \A c \in Calls : \A k \in KvKeys :
             (PutOp(k) \notin Ops(c) /\ PutOp(k) \in {trace'[c][i].op :
                                                     i \in DOMAIN trace'[c]})
             => /\ kv'[k] = Tok(c, k) /\ Tok(c, k) # NoToken
                /\ IssuedTok(Tok(c, k), k)
                /\ kvTimes'[k].written = Hours(now)
        /\ \A k \in KvKeys :
             (kv[k] # NoToken /\ kv'[k] # kv[k])
             => /\ kv'[k] = NoToken
                /\ 3600 * Hours(now') >= 3600 * kvTimes[k].written + SlotTtl(k)
        /\ \A c \in Calls :
             (pc[c] = "get_id" /\ pc'[c] = "fetch")
             => idToken'[c] = kv[ID_TOKEN_KEY]]_vars

\* C16, witness: half a day after the tokens were stored, a call that missed
\* the cache has issued its upstream GET with the stored id token, having
\* made no auth request.
C16_Witness ==
  \E c \in Calls :
     /\ pc[c] = "done" /\ lookup[c] = "miss" /\ Hours(now) = 12
     /\ kvTimes[ID_TOKEN_KEY].written = 0 /\ kvTimes[REFRESH_TOKEN_KEY].written = 0
     /\ held[c][REFRESH_TOKEN_KEY].got = 12 /\ held[c][ID_TOKEN_KEY].used = 12
     /\ Ops(c) = {"cache_match", "kv_get_refresh", "kv_get_id", "upstream_get",
                  "cache_put"}
     /\ idToken[c] = kv[ID_TOKEN_KEY] /\ kv[ID_TOKEN_KEY] # NoToken

\* Headers h and g agree on every name but cache-control.
SameButCacheControl(h, g) ==
  /\ DOMAIN h \ {"cache-control"} = DOMAIN g \ {"cache-control"}
  /\ \A k \in DOMAIN h \ {"cache-control"} : h[k] = g[k]

\* C17: on a miss answered with a 2xx, the call returns exactly what the
\* upstream sent (status, body and headers: no 'public, s-maxage=600' and no
\* debug header is added), and the put it schedules is for the call's url
\* and holds a copy with the same status, body and headers except that
\* cache-control is 'public, s-maxage=600'.
C17_PutWorksOnAClone ==
  /\ [](\A c \in Calls :
          (pc[c] = "done" /\ lookup[c] = "miss" /\ Is2xx(res[c]))
          => /\ DOMAIN res[c].headers \cap
                  {"x-proxy-cache-age", "x-proxy-cache-maxage"} = {}
             /\ HHas(res[c].headers, "cache-control")
                  => res[c].headers["cache-control"] # "public, s-maxage=600")
  /\ [][\A c \in Calls : \A u \in Urls :
          Gets2xx(c, u) =>
             /\ res'[c] \in UpstreamResponses(u, now)
             /\ \E p \in pending' :
                   /\ pending' = pending \cup {p}
                   /\ p.url = u
                   /\ p.res.status = res'[c].status
                   /\ p.res.body = res'[c].body
                   /\ HHas(p.res.headers, "cache-control")
                   /\ p.res.headers["cache-control"] = "public, s-maxage=600"
                   /\ SameButCacheControl(p.res.headers, res'[c].headers)]_vars

\* C17, witness: the call returned the upstream's response with the
\* upstream's own cache-control, while the copy waiting to be stored has
\* 'public, s-maxage=600'.
C17_Witness ==
  \E c \in Calls : \E p \in pending :
     /\ pc[c] = "done" /\ lookup[c] = "miss" /\ Is2xx(res[c])
     /\ DOMAIN res[c].headers = {"date", "cache-control"}
     /\ res[c].headers["cache-control"] = "no-store"
     /\ p.url = url[c] /\ p.res.body = res[c].body
     /\ p.res.headers["cache-control"] = "public, s-maxage=600"

\* C18: with a cache backend whose puts do not fail and waitUntil holding
\* every promise until it settles, each scheduled put is applied in the end,
\* whether or not the call has returned: the cache comes to hold its entry
\* under its url; and a call that looks an url up while the cache holds an
\* entry for it (the backend answering) is a hit served from that entry.
C18_ScheduledPutLands ==
  /\ \A p \in MainPuts :
        (p \in pending) ~> (p.url \in DOMAIN cache /\ cache[p.url] = p.res)
  /\ [](pending \subseteq MainPuts)
  /\ [][\A c \in Calls :
          (pc[c] = "match" /\ pc'[c] # "match" /\ url[c] \in DOMAIN cache
             /\ lookup'[c] # "error")
          => /\ lookup'[c] = "hit" /\ pc'[c] = "done"
             /\ res'[c].body = cache[url[c]].body]_vars

\* C18, witness: the put of a call that has returned has landed, and a later
\* call for the same url is served from the cache.
C18_Witness ==
  \E c \in Calls :
     /\ pc[c] = "done" /\ lookup[c] = "hit" /\ pending = {}
     /\ \A d \in Calls \ {c} : pc[d] = "idle"
     /\ cache[url[c]] \in {p.res : p \in MainPuts}

\* C19: under any interleaving of concurrent calls, no put writes an empty
\* value, so a slot is either absent or holds a non-empty token of its own
\* variant that the upstream issued; and every upstream data GET carries as
\* bearer a non-empty id token that auth_refresh issued and that the call
\* read from the id_token slot or obtained (and stored) itself before.
C19_SlotsAndBearerAreValid ==
  /\ \A k \in KvKeys : kv[k] # NoToken => IssuedTok(kv[k], k)
  /\ \A c \in Calls :
       /\ \A k \in KvKeys : \A i \in At(c, PutOp(k)) :
             trace[c][i].val # NoToken /\ IssuedTok(trace[c][i].val, k)
       /\ \A i \in At(c, "upstream_get") :
             LET v == trace[c][i].val IN
               /\ v # NoToken /\ v.kind = "id" /\ v.n \in 1..issuedId
               /\ \E j \in 1..(i - 1) :
                     /\ trace[c][j].op \in {"kv_get_id", "kv_put_id"}
                     /\ trace[c][j].val = v
       /\ pc[c] = "fetch" => (idToken[c] # NoToken /\ idToken[c].kind = "id")

\* C19, witness: two calls have issued their GETs, one with the id token it
\* read from the slot, the other with an id token it obtained itself, which
\* is not the one the slot holds now.
C19_Witness ==
  \E c, d \in Calls :
     /\ c # d /\ pc[c] = "done" /\ pc[d] = "done"
     /\ "upstream_get" \in Ops(c) /\ "upstream_get" \in Ops(d)
     /\ FromKv(c, ID_TOKEN_KEY) /\ "kv_put_id" \in Ops(d)
     /\ kv[ID_TOKEN_KEY] \notin {NoToken, idToken[d]}

\* e is the copy putCache makes of a 2xx response of the upstream to a GET
\* of url u: that response's status, body and headers, with cache-control
\* set to 'public, s-maxage=600'.
StoredCopyOf(e, u) ==
  /\ Is2xx(e) /\ e.body = UpstreamBody(u)
  /\ HHas(e.headers, "cache-control")
  /\ e.headers["cache-control"] = "public, s-maxage=600"
  /\ \E r \in PlainResponses(u, now) :
        /\ Is2xx(r) /\ e.status = r.status /\ e.body = r.body
        /\ SameButCacheControl(e.headers, r.headers)

\* C20: under any interleaving of concurrent calls for any endpoints, every
\* cache entry under url u, and every put waiting for u, is the copy of a
\* 2xx response of the upstream to a GET of u, with cache-control 'public,
\* s-maxage=600', and a call is served only a response for its own url.  An
\* entry appears or changes only when a waiting put for its url lands, and a
\* put is scheduled only by the step in which a call for that url receives a
\* 2xx answer to the GET it made with an issued id token; a hit, a failing
\* call and a non-2xx answer leave the cache and the waiting puts alone.
C20_EntriesBelongToTheirUrl ==
  /\ [](/\ \A u \in DOMAIN cache : u \in Urls /\ StoredCopyOf(cache[u], u)
        /\ \A p \in pending : p.url \in Urls /\ StoredCopyOf(p.res, p.url)
        /\ \A c \in Calls :
             (pc[c] = "done" /\ Is2xx(res[c])) => res[c].body = UpstreamBody(url[c]))
  /\ [][/\ \A u \in Urls :
             (u \in DOMAIN cache' /\ (u \notin DOMAIN cache \/ cache'[u] # cache[u]))
             => /\ \E p \in pending : p.url = u /\ p.res = cache'[u]
                /\ UNCHANGED <<pc, trace>>
        /\ \A p \in pending' \ pending :
             \E c \in Calls :
                /\ Gets2xx(c, p.url)
                /\ p.res.body = res'[c].body
                /\ IssuedTok(idToken[c], ID_TOKEN_KEY)
                /\ trace'[c][Len(trace'[c]) - 1] = Ev("upstream_get", idToken[c])
        /\ \A c \in Calls :
             (pc[c] # pc'[c] /\ ~\E u \in Urls : Gets2xx(c, u))
             => (pending' = pending /\ cache' = cache)]_vars

\* C20, witness: the cache holds an entry for each of two urls, each with
\* the body of its own url, and one call has been served the one while
\* another call has just fetched the other.
C20_Witness ==
  \E c, d \in Calls :
     /\ DOMAIN cache = Urls
     /\ \A u \in Urls : cache[u].body = UpstreamBody(u)
     /\ url[c] # url[d]
     /\ pc[c] = "done" /\ lookup[c] = "hit" /\ res[c].body = UpstreamBody(url[c])
     /\ pc[d] = "done" /\ lookup[d] = "miss" /\ Is2xx(res[d])

====
